---- MODULE Spec2Model ----
(***************************************************************************)
(* Decompression core of the ROHC IP-only profile (src/src/decomp/d_ip.c). *)
(*                                                                         *)
(* The model follows one decompressor instance handling one packet at a    *)
(* time: the framework hands the packet to ip_detect_packet_type, then,    *)
(* according to the detected type, hands the dynamic chain to              *)
(* ip_parse_dynamic_ip or the extension 3 to ip_parse_ext3.  The body of   *)
(* ip_parse_ext3 is followed block by block (one action per block of the   *)
(* function), the position in the function being f.pc.                     *)
(*                                                                         *)
(* Code of the library that d_ip.c calls but that lives in other files     *)
(* (bit macros, packet discriminators, the generic RFC 3095 flags/fields   *)
(* parsers, the framework that drives the profile) is modelled from the    *)
(* specification and from RFC 3095 5.7.5, which d_ip.c cites.              *)
(***************************************************************************)
EXTENDS Integers, Sequences, FiniteSets, TLC

VARIABLES
    strict,     \* build option ROHC_RFC_STRICT_DECOMPRESSOR
    ctxt,       \* persistent context of the flow
    pre_ctxt,   \* history: the persistent context when the packet arrived
    bits,       \* struct rohc_extr_bits of the packet being parsed
    bits0,      \* history: bits at the entry of the running parse function
    ptype,      \* packet type returned by ip_detect_packet_type
    f           \* frame of the running function: position, input, locals

vars == <<strict, ctxt, pre_ctxt, bits, bits0, ptype, f>>

----------------------------------------------------------------------------
(* Bounds of the exploration.                                              *)

\* number of SN bits the base header may have put in bits before extension 3
MaxBaseSnBits == 5
\* number of IP-ID bits an earlier stage may have put in a header record
MaxBaseIdBits == 3
\* number of bytes that may follow a complete extension 3 in the input
MaxTrailing == 1

----------------------------------------------------------------------------
(* Values.                                                                 *)

IPV4 == 4
IPV6 == 6

\* value of a local variable or pointer that was not assigned yet (NULL)
Undef == -1

ROHC_PACKET_UO_0    == "UO_0"
ROHC_PACKET_UO_1    == "UO_1"
ROHC_PACKET_UOR_2   == "UOR_2"
ROHC_PACKET_IR_DYN  == "IR_DYN"
ROHC_PACKET_IR      == "IR"
ROHC_PACKET_UNKNOWN == "Unknown"

Byte == 0..255

Pow2(n) == 2 ^ n

\* bit n (0 = least significant) of a byte, as GET_REAL(GET_BIT_n(p))
GET_BIT(b, n) == (b \div Pow2(n)) % 2

\* bits 3 and 4 of a byte, shifted down
GET_BIT_3_4(b) == (b \div 8) % 4

\* the whole byte
GET_BIT_0_7(b) == b % 256

Max(a, b) == IF a >= b THEN a ELSE b

\* Byte i (0-based) of the buffer.  The C code reads memory; a read at or
\* past the end of the input is outside the buffer handed to the function.
\* Every read is recorded in f.hi, and the model checks that no read ever
\* passes the end, so the value returned for such a read is never used.
ByteAt(data, i) == IF i >= 0 /\ i < Len(data) THEN data[i + 1] ELSE 0

Prefix(s, n) == SubSeq(s, 1, n)

----------------------------------------------------------------------------
(* Packet discriminators (rohc_decomp_detect_packet.h).                    *)

rohc_decomp_packet_is_uo0(data)   == GET_BIT(ByteAt(data, 0), 7) = 0
rohc_decomp_packet_is_uo1(data)   == ByteAt(data, 0) \div 64 = 2
rohc_decomp_packet_is_uor2(data)  == ByteAt(data, 0) \div 32 = 6
rohc_decomp_packet_is_irdyn(data) == ByteAt(data, 0) = 248
rohc_decomp_packet_is_ir(data)    == ByteAt(data, 0) \div 2 = 126

\* A plausible slip: the IR-DYN test is missing from the chain.
ip_detect_packet_type_noirdyn(data) ==
    IF rohc_decomp_packet_is_uo0(data) THEN ROHC_PACKET_UO_0
    ELSE IF rohc_decomp_packet_is_uo1(data) THEN ROHC_PACKET_UO_1
    ELSE IF rohc_decomp_packet_is_uor2(data) THEN ROHC_PACKET_UOR_2
    ELSE IF rohc_decomp_packet_is_ir(data) THEN ROHC_PACKET_IR
    ELSE ROHC_PACKET_UNKNOWN

\* d_ip.c:126-174
ip_detect_packet_type(data) ==
    IF rohc_decomp_packet_is_uo0(data) THEN ROHC_PACKET_UO_0
    ELSE IF rohc_decomp_packet_is_uo1(data) THEN ROHC_PACKET_UO_1
    ELSE IF rohc_decomp_packet_is_uor2(data) THEN ROHC_PACKET_UOR_2
    ELSE IF rohc_decomp_packet_is_irdyn(data) THEN ROHC_PACKET_IR_DYN
    ELSE IF rohc_decomp_packet_is_ir(data) THEN ROHC_PACKET_IR
    ELSE ROHC_PACKET_UNKNOWN

----------------------------------------------------------------------------
(* Records.                                                                *)

\* struct rohc_extr_ip_bits, the fields the IP-only core reads or writes
IpBits(version, rnd) ==
    [version |-> version, rnd |-> rnd, rnd_nr |-> 0,
     id |-> 0, id_nr |-> 0, is_id_enc |-> FALSE,
     tos |-> 0, tos_nr |-> 0, ttl |-> 0, ttl_nr |-> 0,
     proto |-> 0, proto_nr |-> 0]

\* The extracted bits at the start of a packet: everything empty, the
\* header versions, RND flags and multiple_ip latched from the context.
ResetBits(c) ==
    [sn |-> 0, sn_nr |-> 0, is_sn_enc |-> FALSE,
     mode |-> 0, mode_nr |-> 0,
     multiple_ip |-> c.multiple_ip,
     inner_ip |-> IpBits(c.inner.version, c.inner.rnd),
     outer_ip |-> IpBits(c.outer.version, c.outer.rnd)]

\* The frame of a function call on input data: the position pc in the
\* function, the locals of the function (named as in the code), the value
\* returned (ret), and what the model records about the call: gen, the
\* choices of the generator the input was built from; err, the check that
\* failed; diag, the malformed-packet diagnostics emitted; hi, the end of
\* the bytes read so far; inner_size and outer_size, the sizes reported by
\* the two flags/fields parsers.
Frame(fn, pc, data, gen) ==
    [fn |-> fn, pc |-> pc, data |-> data, gen |-> gen,
     rohc_remain_data |-> 0, rohc_remain_len |-> Len(data),
     S |-> Undef, I |-> Undef, ip |-> Undef, ip2 |-> Undef,
     ip_flags_pos |-> Undef, ip2_flags_pos |-> Undef,
     I_bits |-> Undef, size |-> Undef,
     ret |-> Undef, err |-> "none", diag |-> {}, hi |-> 0,
     inner_size |-> 0, outer_size |-> 0]

NoGen == [S |-> 0, mode |-> 0, I |-> 0, ip |-> 0, ip2 |-> 0,
          iflags |-> 0, oflags |-> 0]

IdleFrame == Frame("none", "idle", <<>>, NoGen)

\* goto error: the function returns -1; kind names the failing check
Fail(fr, kind) == [fr EXCEPT !.pc = "error", !.ret = -1, !.err = kind]

\* the frame after reading n bytes at the cursor and advancing over them
Advance(fr, n) ==
    [fr EXCEPT !.rohc_remain_data = @ + n, !.rohc_remain_len = @ - n,
               !.hi = Max(@, fr.rohc_remain_data + n)]

----------------------------------------------------------------------------
(* ip_parse_dynamic_ip                                                     *)

\* GET_NEXT_16_BITS: the 16-bit word at the pointer, in the byte order of
\* the host (le: little-endian host)
GET_NEXT_16_BITS(data, i, le) ==
    IF le THEN ByteAt(data, i) + 256 * ByteAt(data, i + 1)
          ELSE 256 * ByteAt(data, i) + ByteAt(data, i + 1)

\* rohc_ntoh16: network to host order, a byte swap on a little-endian host
rohc_ntoh16(x, le) == IF le THEN (x % 256) * 256 + (x \div 256) ELSE x

\* A plausible slip: the length check of the SN field is off by one.
ip_parse_dynamic_ip_short(fr, b, le) ==
    IF fr.rohc_remain_len < 1
    THEN [f |-> Fail(fr, "TooShort"), bits |-> b]
    ELSE [f |-> [Advance(fr, 2) EXCEPT !.pc = "done", !.ret = 2],
          bits |-> [b EXCEPT
                      !.sn = rohc_ntoh16(GET_NEXT_16_BITS(fr.data, 0, le), le),
                      !.sn_nr = 16, !.is_sn_enc = FALSE]]

\* d_ip.c:187-215
ip_parse_dynamic_ip(fr, b, le) ==
    IF fr.rohc_remain_len < 2
    THEN [f |-> Fail(fr, "TooShort"), bits |-> b]
    ELSE [f |-> [Advance(fr, 2) EXCEPT !.pc = "done", !.ret = 2],
          bits |-> [b EXCEPT
                      !.sn = rohc_ntoh16(GET_NEXT_16_BITS(fr.data, 0, le), le),
                      !.sn_nr = 16, !.is_sn_enc = FALSE]]

----------------------------------------------------------------------------
(* Generic RFC 3095 helpers called by ip_parse_ext3.                       *)

\* is_ipv4_non_rnd_pkt: the header is IPv4 and its IP-ID is not random
is_ipv4_non_rnd_pkt(ipb) == ipb.version = IPV4 /\ ipb.rnd = 0

\* APPEND_SN_BITS: shift the SN bits found so far and append the new ones.
\* bits->sn is a 32-bit unsigned integer: the shift drops the bits that
\* leave the 32-bit word.
APPEND_SN_BITS(b, val, len) ==
    [b EXCEPT !.sn = (@ % Pow2(32 - len)) * Pow2(len) + val,
              !.sn_nr = @ + len]

\* number of bytes of header fields announced by a flags byte
\* (RFC 3095 5.7.5: TOS, TTL and PR each announce one byte)
FieldsLen(flags) == GET_BIT(flags, 7) + GET_BIT(flags, 6) + GET_BIT(flags, 4)

\* rfc3095_parse_hdr_flags_fields: parse the header fields found at offset
\* fields (length bytes available) according to the flags byte found at
\* offset flags.  Flags byte, RFC 3095 5.7.5:
\*     TOS | TTL | DF | PR | IPX | NBO | RND | reserved (inner) or I2 (outer)
\* The RND flag is recorded first, then one byte is read for each of TOS,
\* TTL and PR that is set, each after a length check; the IP extension
\* header list (IPX) is not supported.  Returns the number of bytes read
\* from the fields (-1 on error), the last flag, and the header record.
rfc3095_parse_hdr_flags_fields(data, flags, fields, length, ipb) ==
    LET fl     == ByteAt(data, flags)
        is_tos == GET_BIT(fl, 7)
        is_ttl == GET_BIT(fl, 6)
        is_pr  == GET_BIT(fl, 4)
        is_ipx == GET_BIT(fl, 3)
        b0 == [ipb EXCEPT !.rnd = GET_BIT(fl, 1), !.rnd_nr = 1]
        n1 == is_tos
        b1 == IF is_tos = 1 /\ length >= n1
              THEN [b0 EXCEPT !.tos = ByteAt(data, fields), !.tos_nr = 8]
              ELSE b0
        n2 == n1 + is_ttl
        b2 == IF is_ttl = 1 /\ length >= n2
              THEN [b1 EXCEPT !.ttl = ByteAt(data, fields + n1), !.ttl_nr = 8]
              ELSE b1
        n3 == n2 + is_pr
        b3 == IF is_pr = 1 /\ length >= n3
              THEN [b2 EXCEPT !.proto = ByteAt(data, fields + n2),
                              !.proto_nr = 8]
              ELSE b2
        reserved == GET_BIT(fl, 0) = 1
    IN  IF length < n3
        THEN [ret |-> -1, err |-> "TooShort", reserved_flag |-> reserved,
              bits |-> b3]
        ELSE IF is_ipx = 1
        THEN [ret |-> -1, err |-> "Unsupported", reserved_flag |-> reserved,
              bits |-> b3]
        ELSE [ret |-> n3, err |-> "none", reserved_flag |-> reserved,
              bits |-> b3]

\* rfc3095_parse_outer_hdr_flags_fields: the generic parser applied to the
\* outer header.
rfc3095_parse_outer_hdr_flags_fields(data, flags, fields, length, ipb) ==
    rfc3095_parse_hdr_flags_fields(data, flags, fields, length, ipb)

\* A plausible slip: the strict build lets a non-zero reserved flag pass.
ip_parse_inner_hdr_flags_fields_lax(data, flags, fields, length, ipb, s) ==
    LET r == rfc3095_parse_hdr_flags_fields(data, flags, fields, length, ipb)
    IN  [ret |-> r.ret, err |-> r.err, bits |-> r.bits,
         diag |-> IF r.ret >= 0 /\ r.reserved_flag THEN {"reserved"} ELSE {}]

\* d_ip.c:492-513
ip_parse_inner_hdr_flags_fields(data, flags, fields, length, ipb, s) ==
    LET r == rfc3095_parse_hdr_flags_fields(data, flags, fields, length, ipb)
    IN  IF r.ret >= 0 /\ r.reserved_flag
        THEN IF s
             THEN [ret |-> -1, err |-> "MalformedReservedFlag",
                   bits |-> r.bits, diag |-> {"reserved"}]
             ELSE [ret |-> r.ret, err |-> r.err,
                   bits |-> r.bits, diag |-> {"reserved"}]
        ELSE [ret |-> r.ret, err |-> r.err, bits |-> r.bits, diag |-> {}]

----------------------------------------------------------------------------
(* ip_parse_ext3, block by block.  Each block maps the frame and the       *)
(* extracted bits at its entry to the frame and the bits at its exit; s is *)
(* the strictness of the build.                                            *)

\* d_ip.c:281-308: length check, then S, Mode, I, ip, ip2 from the flags byte
ext3_flags(fr, b, s) ==
    IF fr.rohc_remain_len < 1
    THEN [f |-> Fail(fr, "TooShort"), bits |-> b]
    ELSE
      LET byte == ByteAt(fr.data, fr.rohc_remain_data)
          b1   == [b EXCEPT !.mode = GET_BIT_3_4(byte), !.mode_nr = 2]
          f1   == [fr EXCEPT !.S = GET_BIT(byte, 5),
                             !.hi = Max(@, fr.rohc_remain_data + 1),
                             !.diag = IF b1.mode = 0 THEN @ \cup {"mode0"}
                                      ELSE @]
      IN  IF b1.mode = 0 /\ s
          THEN [f |-> Fail(f1, "MalformedMode"), bits |-> b1]
          ELSE [f |-> [Advance(f1, 1) EXCEPT !.I = GET_BIT(byte, 2),
                                             !.ip = GET_BIT(byte, 1),
                                             !.ip2 = GET_BIT(byte, 0),
                                             !.pc = "check_len"],
                bits |-> b1]

\* d_ip.c:310-317: room for the inner flags, the outer flags and the SN
ext3_check_len(fr, b, s) ==
    IF fr.rohc_remain_len < fr.ip + fr.ip2 + fr.S
    THEN [f |-> Fail(fr, "TooShort"), bits |-> b]
    ELSE [f |-> [fr EXCEPT !.pc = "ip_flags"], bits |-> b]

\* d_ip.c:319-334: remember the position of the inner IP header flags
ext3_ip_flags(fr, b, s) ==
    IF fr.ip = 1
    THEN [f |-> [Advance(IF b.multiple_ip
                         THEN [fr EXCEPT !.ip2_flags_pos = fr.rohc_remain_data]
                         ELSE [fr EXCEPT !.ip_flags_pos = fr.rohc_remain_data],
                         1)
                 EXCEPT !.pc = "ip2_flags"],
          bits |-> b]
    ELSE [f |-> [fr EXCEPT !.pc = "ip2_flags"], bits |-> b]

\* d_ip.c:336-344: remember the position of the outer IP header flags
ext3_ip2_flags(fr, b, s) ==
    IF fr.ip2 = 1
    THEN [f |-> [Advance([fr EXCEPT !.ip_flags_pos = fr.rohc_remain_data], 1)
                 EXCEPT !.pc = "sn"],
          bits |-> b]
    ELSE [f |-> [fr EXCEPT !.pc = "sn"], bits |-> b]

\* A plausible slip: the SN byte replaces the SN bits found so far.
ext3_sn_replace(fr, b, s) ==
    IF fr.S = 1
    THEN [f |-> [Advance(fr, 1) EXCEPT !.pc = "inner"],
          bits |-> [b EXCEPT
                      !.sn = GET_BIT_0_7(ByteAt(fr.data, fr.rohc_remain_data)),
                      !.sn_nr = 8]]
    ELSE [f |-> [fr EXCEPT !.pc = "inner"], bits |-> b]

\* d_ip.c:346-352: the SN byte
ext3_sn(fr, b, s) ==
    IF fr.S = 1
    THEN [f |-> [Advance(fr, 1) EXCEPT !.pc = "inner"],
          bits |-> APPEND_SN_BITS(
                       b, GET_BIT_0_7(ByteAt(fr.data, fr.rohc_remain_data)), 8)]
    ELSE [f |-> [fr EXCEPT !.pc = "inner"], bits |-> b]

\* A plausible slip: the inner flags/fields parse always fills the record
\* of the inner header.
ext3_inner_to_inner(fr, b, s) ==
    IF fr.ip = 1
    THEN
      LET r == ip_parse_inner_hdr_flags_fields(
                   fr.data,
                   IF b.multiple_ip THEN fr.ip2_flags_pos ELSE fr.ip_flags_pos,
                   fr.rohc_remain_data, fr.rohc_remain_len, b.inner_ip, s)
          b1 == [b EXCEPT !.inner_ip = r.bits]
          f1 == [fr EXCEPT !.size = r.ret, !.diag = @ \cup r.diag]
      IN  IF r.ret < 0
          THEN [f |-> Fail(f1, r.err), bits |-> b1]
          ELSE [f |-> [Advance(f1, r.ret) EXCEPT !.pc = "ip_id",
                                                 !.inner_size = r.ret],
                bits |-> b1]
    ELSE [f |-> [fr EXCEPT !.pc = "ip_id"], bits |-> b]

\* d_ip.c:354-378: the inner IP header fields
ext3_inner(fr, b, s) ==
    IF fr.ip = 1
    THEN
      LET r == IF b.multiple_ip
               THEN ip_parse_inner_hdr_flags_fields(
                        fr.data, fr.ip2_flags_pos, fr.rohc_remain_data,
                        fr.rohc_remain_len, b.inner_ip, s)
               ELSE ip_parse_inner_hdr_flags_fields(
                        fr.data, fr.ip_flags_pos, fr.rohc_remain_data,
                        fr.rohc_remain_len, b.outer_ip, s)
          b1 == IF b.multiple_ip THEN [b EXCEPT !.inner_ip = r.bits]
                                 ELSE [b EXCEPT !.outer_ip = r.bits]
          f1 == [fr EXCEPT !.size = r.ret, !.diag = @ \cup r.diag]
      IN  IF r.ret < 0
          THEN [f |-> Fail(f1, r.err), bits |-> b1]
          ELSE [f |-> [Advance(f1, r.ret) EXCEPT !.pc = "ip_id",
                                                 !.inner_size = r.ret],
                bits |-> b1]
    ELSE [f |-> [fr EXCEPT !.pc = "ip_id"], bits |-> b]

\* A plausible slip: the length check of the IP-ID asks for one byte only.
ext3_ip_id_short(fr, b, s) ==
    IF fr.I = 1
    THEN IF fr.rohc_remain_len < 1
         THEN [f |-> Fail(fr, "TooShort"), bits |-> b]
         ELSE [f |-> [Advance(fr, 2) EXCEPT
                        !.I_bits =
                            ((ByteAt(fr.data, fr.rohc_remain_data) * 256)
                                 % 65536)
                            + (ByteAt(fr.data, fr.rohc_remain_data + 1) % 256),
                        !.pc = "outer"],
               bits |-> b]
    ELSE [f |-> [fr EXCEPT !.I_bits = 0, !.pc = "outer"], bits |-> b]

\* the IP-ID bits of extension 3 put in a header record
SetId(ipb, I_bits) ==
    [ipb EXCEPT !.id = I_bits, !.id_nr = 16, !.is_id_enc = TRUE]

\* A plausible slip: the IP-ID is given to a header as soon as it is read,
\* with the RND flags as they are before the outer IP header flags.
ext3_ip_id_assigns(fr, b, s) ==
    IF fr.I = 1
    THEN IF fr.rohc_remain_len < 2
         THEN [f |-> Fail(fr, "TooShort"), bits |-> b]
         ELSE
           LET id == ((ByteAt(fr.data, fr.rohc_remain_data) * 256) % 65536)
                     + (ByteAt(fr.data, fr.rohc_remain_data + 1) % 256)
               f1 == [Advance(fr, 2) EXCEPT !.I_bits = id, !.pc = "outer"]
           IN  IF b.multiple_ip /\ is_ipv4_non_rnd_pkt(b.inner_ip)
               THEN [f |-> f1,
                     bits |-> [b EXCEPT !.inner_ip = SetId(@, id)]]
               ELSE IF is_ipv4_non_rnd_pkt(b.outer_ip)
               THEN [f |-> f1,
                     bits |-> [b EXCEPT !.outer_ip = SetId(@, id)]]
               ELSE [f |-> Fail(fr, "NoIpIdTarget"), bits |-> b]
    ELSE [f |-> [fr EXCEPT !.I_bits = 0, !.pc = "outer"], bits |-> b]

\* d_ip.c:380-404: read and skip the IP-ID
ext3_ip_id(fr, b, s) ==
    IF fr.I = 1
    THEN IF fr.rohc_remain_len < 2
         THEN [f |-> Fail(fr, "TooShort"), bits |-> b]
         ELSE [f |-> [Advance(fr, 2) EXCEPT
                        !.I_bits =
                            ((ByteAt(fr.data, fr.rohc_remain_data) * 256)
                                 % 65536)
                            + (ByteAt(fr.data, fr.rohc_remain_data + 1) % 256),
                        !.pc = "outer"],
               bits |-> b]
    ELSE [f |-> [fr EXCEPT !.I_bits = 0, !.pc = "outer"], bits |-> b]

\* d_ip.c:406-423: the outer IP header fields
ext3_outer(fr, b, s) ==
    IF fr.ip2 = 1
    THEN
      LET r == rfc3095_parse_outer_hdr_flags_fields(
                   fr.data, fr.ip_flags_pos, fr.rohc_remain_data,
                   fr.rohc_remain_len, b.outer_ip)
          b1 == [b EXCEPT !.outer_ip = r.bits]
          f1 == [fr EXCEPT !.size = r.ret]
      IN  IF r.ret = -1
          THEN [f |-> Fail(f1, r.err), bits |-> b1]
          ELSE [f |-> [Advance(f1, r.ret) EXCEPT !.pc = "assign",
                                                 !.outer_size = r.ret],
                bits |-> b1]
    ELSE [f |-> [fr EXCEPT !.pc = "assign"], bits |-> b]

\* return (rohc_data_len - rohc_remain_len)
Return(fr) ==
    [fr EXCEPT !.pc = "done", !.ret = Len(fr.data) - fr.rohc_remain_len]

\* A plausible slip: any IP-ID bits already found count as an update, also
\* those of value zero.
ext3_assign_any_bits(fr, b, s) ==
    IF fr.I = 1
    THEN
      IF b.multiple_ip /\ is_ipv4_non_rnd_pkt(b.inner_ip)
      THEN
        LET upd == b.inner_ip.id_nr > 0
            f1  == [fr EXCEPT !.diag = IF upd THEN @ \cup {"id_updated"} ELSE @]
        IN  IF upd /\ s
            THEN [f |-> Fail(f1, "IpIdAlreadySet"), bits |-> b]
            ELSE [f |-> Return(f1),
                  bits |-> [b EXCEPT !.inner_ip = SetId(@, fr.I_bits)]]
      ELSE IF is_ipv4_non_rnd_pkt(b.outer_ip)
      THEN
        LET upd == b.outer_ip.id_nr > 0
            f1  == [fr EXCEPT !.diag = IF upd THEN @ \cup {"id_updated"} ELSE @]
        IN  IF upd /\ s
            THEN [f |-> Fail(f1, "IpIdAlreadySet"), bits |-> b]
            ELSE [f |-> Return(f1),
                  bits |-> [b EXCEPT !.outer_ip = SetId(@, fr.I_bits)]]
      ELSE [f |-> Fail(fr, "NoIpIdTarget"), bits |-> b]
    ELSE [f |-> Return(fr), bits |-> b]

\* A plausible slip: the outer header is tried before the inner one.
ext3_assign_outer_first(fr, b, s) ==
    IF fr.I = 1
    THEN
      IF is_ipv4_non_rnd_pkt(b.outer_ip)
      THEN
        LET upd == b.outer_ip.id_nr > 0 /\ b.outer_ip.id # 0
            f1  == [fr EXCEPT !.diag = IF upd THEN @ \cup {"id_updated"} ELSE @]
        IN  IF upd /\ s
            THEN [f |-> Fail(f1, "IpIdAlreadySet"), bits |-> b]
            ELSE [f |-> Return(f1),
                  bits |-> [b EXCEPT !.outer_ip = SetId(@, fr.I_bits)]]
      ELSE IF b.multiple_ip /\ is_ipv4_non_rnd_pkt(b.inner_ip)
      THEN
        LET upd == b.inner_ip.id_nr > 0 /\ b.inner_ip.id # 0
            f1  == [fr EXCEPT !.diag = IF upd THEN @ \cup {"id_updated"} ELSE @]
        IN  IF upd /\ s
            THEN [f |-> Fail(f1, "IpIdAlreadySet"), bits |-> b]
            ELSE [f |-> Return(f1),
                  bits |-> [b EXCEPT !.inner_ip = SetId(@, fr.I_bits)]]
      ELSE [f |-> Fail(fr, "NoIpIdTarget"), bits |-> b]
    ELSE [f |-> Return(fr), bits |-> b]

\* d_ip.c:425-472: give the IP-ID to the innermost IPv4 header with a
\* non-random IP-ID, then return the length read
ext3_assign(fr, b, s) ==
    IF fr.I = 1
    THEN
      IF b.multiple_ip /\ is_ipv4_non_rnd_pkt(b.inner_ip)
      THEN
        LET upd == b.inner_ip.id_nr > 0 /\ b.inner_ip.id # 0
            f1  == [fr EXCEPT !.diag = IF upd THEN @ \cup {"id_updated"} ELSE @]
        IN  IF upd /\ s
            THEN [f |-> Fail(f1, "IpIdAlreadySet"), bits |-> b]
            ELSE [f |-> Return(f1),
                  bits |-> [b EXCEPT !.inner_ip = SetId(@, fr.I_bits)]]
      ELSE IF is_ipv4_non_rnd_pkt(b.outer_ip)
      THEN
        LET upd == b.outer_ip.id_nr > 0 /\ b.outer_ip.id # 0
            f1  == [fr EXCEPT !.diag = IF upd THEN @ \cup {"id_updated"} ELSE @]
        IN  IF upd /\ s
            THEN [f |-> Fail(f1, "IpIdAlreadySet"), bits |-> b]
            ELSE [f |-> Return(f1),
                  bits |-> [b EXCEPT !.outer_ip = SetId(@, fr.I_bits)]]
      ELSE [f |-> Fail(fr, "NoIpIdTarget"), bits |-> b]
    ELSE [f |-> Return(fr), bits |-> b]

Ext3Pcs == {"flags", "check_len", "ip_flags", "ip2_flags", "sn", "inner",
            "ip_id", "outer", "assign"}

\* d_ip.c:257-476: the block of ip_parse_ext3 at position fr.pc
ip_parse_ext3_step(fr, b, s) ==
    CASE fr.pc = "flags"     -> ext3_flags(fr, b, s)
      [] fr.pc = "check_len" -> ext3_check_len(fr, b, s)
      [] fr.pc = "ip_flags"  -> ext3_ip_flags(fr, b, s)
      [] fr.pc = "ip2_flags" -> ext3_ip2_flags(fr, b, s)
      [] fr.pc = "sn"        -> ext3_sn(fr, b, s)
      [] fr.pc = "inner"     -> ext3_inner(fr, b, s)
      [] fr.pc = "ip_id"     -> ext3_ip_id(fr, b, s)
      [] fr.pc = "outer"     -> ext3_outer(fr, b, s)
      [] fr.pc = "assign"    -> ext3_assign(fr, b, s)
      [] OTHER               -> [f |-> fr, bits |-> b]

\* d_ip.c:257-476: ip_parse_ext3 run from position fr.pc to its return
RECURSIVE ip_parse_ext3(_, _, _)
ip_parse_ext3(fr, b, s) ==
    IF fr.pc \in Ext3Pcs
    THEN LET r == ip_parse_ext3_step(fr, b, s)
         IN  ip_parse_ext3(r.f, r.bits, s)
    ELSE [f |-> fr, bits |-> b]

----------------------------------------------------------------------------
(* Inputs.                                                                 *)

Bit == {0, 1}

\* the packets handed to the detector: every first byte, alone or followed
\* by one more byte
PacketInputs == {<<b>> : b \in Byte} \cup {<<b, 255 - b>> : b \in Byte}

\* the dynamic chains handed to ip_parse_dynamic_ip: 0 to 3 bytes
DynVals == {18, 52, 255}
DynInputs ==
    {<<>>} \cup {<<x>> : x \in DynVals}
           \cup {<<x, y>> : x, y \in DynVals}
           \cup {<<x, y, z>> : x, y, z \in DynVals}

\* Contents of the sub-fields of the generated extensions 3.
ModeVals       == 0..3
InnerFlagVals  == {0, 1, 130}    \* no field; reserved flag set; TOS and RND
OuterFlagVals  == {0, 130}       \* no field; TOS and RND
SnByte         == <<85>>
IpIdBytes      == <<171, 205>>
TosByte        == <<7>>
TrailingBytes  == [i \in 1..MaxTrailing |-> 255]

\* the choices of the generator of extensions 3
Ext3Gens ==
    [S : Bit, mode : ModeVals, I : Bit, ip : Bit, ip2 : Bit,
     iflags : InnerFlagVals, oflags : OuterFlagVals]

\* the header fields announced by a flags byte: FieldsLen(flags) bytes
FieldsFor(flags) == [i \in 1..FieldsLen(flags) |-> TosByte[1]]

Opt(present, bytes) == IF present = 1 THEN bytes ELSE <<>>

\* the flags byte of extension 3:  1 1 S Mode(2) I ip ip2
Ext3FlagsByte(g) ==
    192 + 32 * g.S + 8 * g.mode + 4 * g.I + 2 * g.ip + g.ip2

\* the extension 3 on the wire, sub-fields in the order of the format
Ext3Build(g) ==
    <<Ext3FlagsByte(g)>>
      \o Opt(g.ip, <<g.iflags>>)
      \o Opt(g.ip2, <<g.oflags>>)
      \o Opt(g.S, SnByte)
      \o Opt(g.ip, FieldsFor(g.iflags))
      \o Opt(g.I, IpIdBytes)
      \o Opt(g.ip2, FieldsFor(g.oflags))

\* The inputs of ip_parse_ext3: every generated extension 3, cut at every
\* byte boundary, whole, and followed by up to MaxTrailing more bytes.
\* A sub-field that is absent has one content only.
Ext3Inputs ==
    UNION {
      LET full == Ext3Build(g)
      IN  {[data |-> Prefix(full \o TrailingBytes, n), gen |-> g]
             : n \in 0..(Len(full) + MaxTrailing)}
      : g \in {h \in Ext3Gens : /\ h.ip = 0 => h.iflags = 0
                                /\ h.ip2 = 0 => h.oflags = 0}}

HeaderCtxt(version, rnd) == [version |-> version, rnd |-> rnd, last_id |-> 0]

\* the persistent contexts a flow may be in
Ctxts ==
    {[multiple_ip |-> FALSE, inner |-> HeaderCtxt(IPV4, 0), outer |-> o,
      sn_ref |-> 0]
       : o \in {HeaderCtxt(IPV4, 0), HeaderCtxt(IPV4, 1), HeaderCtxt(IPV6, 0)}}
    \cup
    {[multiple_ip |-> TRUE, inner |-> i, outer |-> o, sn_ref |-> 0]
       : i \in {HeaderCtxt(IPV4, 0), HeaderCtxt(IPV4, 1)},
         o \in {HeaderCtxt(IPV4, 0), HeaderCtxt(IPV4, 1), HeaderCtxt(IPV6, 0)}}

\* IP-ID bits an earlier stage of the parsing left in a header record:
\* MaxBaseIdBits bits of value zero or non-zero
BaseIds(ipb) ==
    {[ipb EXCEPT !.id = v, !.id_nr = MaxBaseIdBits, !.is_id_enc = TRUE]
       : v \in {0, Pow2(MaxBaseIdBits) - 1}}

\* The bits already found in the base header when extension 3 is parsed:
\* none, or SN bits, or IP-ID bits of one header.
BaseBits(c) ==
    LET b == ResetBits(c)
    IN  {b}
        \cup {[b EXCEPT !.sn = Pow2(MaxBaseSnBits) - 1,
                        !.sn_nr = MaxBaseSnBits, !.is_sn_enc = TRUE]}
        \cup {[b EXCEPT !.outer_ip = o] : o \in BaseIds(b.outer_ip)}
        \cup (IF c.multiple_ip
              THEN {[b EXCEPT !.inner_ip = i] : i \in BaseIds(b.inner_ip)}
              ELSE {})

----------------------------------------------------------------------------
(* The state machine.                                                      *)

Init ==
    /\ strict \in BOOLEAN
    /\ ctxt \in Ctxts
    /\ pre_ctxt = ctxt
    /\ bits = ResetBits(ctxt)
    /\ bits0 = bits
    /\ ptype = "none"
    /\ f = IdleFrame

\* the running function moves to frame r.f with extracted bits r.bits
Commit(r) ==
    /\ f' = r.f
    /\ bits' = r.bits
    /\ UNCHANGED <<strict, ctxt, pre_ctxt, bits0, ptype>>

\* a packet arrives: the extracted bits are reset from the context
NewPacket ==
    /\ f.pc = "idle"
    /\ \E p \in PacketInputs : f' = Frame("detect", "detect", p, NoGen)
    /\ UNCHANGED <<strict, ctxt, pre_ctxt, bits, bits0, ptype>>

\* d_ip.c:126-174
DetectPacketType ==
    /\ f.fn = "detect" /\ f.pc = "detect"
    /\ ptype' = ip_detect_packet_type(f.data)
    /\ f' = [f EXCEPT !.pc = "done", !.hi = 1]
    /\ UNCHANGED <<strict, ctxt, pre_ctxt, bits, bits0>>

\* parse_pkt of the framework takes over with the detected type
ParsePkt ==
    /\ f.fn = "detect" /\ f.pc = "done"
    /\ f' = Frame("parse_pkt", "parse", <<>>, NoGen)
    /\ UNCHANGED <<strict, ctxt, pre_ctxt, bits, bits0, ptype>>

\* the framework parses the dynamic chain of an IR or IR-DYN packet
CallDynamic ==
    /\ f.fn = "parse_pkt"
    /\ ptype \in {ROHC_PACKET_IR, ROHC_PACKET_IR_DYN}
    /\ \E d \in DynInputs : f' = Frame("dyn", "dyn", d, NoGen)
    /\ UNCHANGED <<strict, ctxt, pre_ctxt, bits, bits0, ptype>>

\* d_ip.c:187-215, on a host of either byte order
ParseDynamicIp ==
    /\ f.fn = "dyn" /\ f.pc = "dyn"
    /\ \E le \in BOOLEAN : Commit(ip_parse_dynamic_ip(f, bits, le))

\* the framework parsed the base header of a UOR-2 packet and hands its
\* extension 3 to the profile (d_ip.c:277: packet_type is UOR-2)
CallExt3 ==
    /\ f.fn = "parse_pkt"
    /\ ptype = ROHC_PACKET_UOR_2
    /\ \E in \in Ext3Inputs, b \in BaseBits(ctxt) :
          /\ f' = Frame("ext3", "flags", in.data, in.gen)
          /\ bits' = b
          /\ bits0' = b
    /\ UNCHANGED <<strict, ctxt, pre_ctxt, ptype>>

Ext3Flags ==
    f.fn = "ext3" /\ f.pc = "flags" /\ Commit(ext3_flags(f, bits, strict))

Ext3CheckLen ==
    f.fn = "ext3" /\ f.pc = "check_len"
        /\ Commit(ext3_check_len(f, bits, strict))

Ext3IpFlags ==
    f.fn = "ext3" /\ f.pc = "ip_flags" /\ Commit(ext3_ip_flags(f, bits, strict))

Ext3Ip2Flags ==
    f.fn = "ext3" /\ f.pc = "ip2_flags"
        /\ Commit(ext3_ip2_flags(f, bits, strict))

Ext3Sn ==
    f.fn = "ext3" /\ f.pc = "sn" /\ Commit(ext3_sn(f, bits, strict))

\* update_ctxt of the framework: the RND flags found in the packet become
\* those of the context
update_ctxt(c, b) ==
    [c EXCEPT
       !.inner.rnd = IF b.inner_ip.rnd_nr > 0 /\ b.inner_ip.version = IPV4
                     THEN b.inner_ip.rnd ELSE @,
       !.outer.rnd = IF b.outer_ip.rnd_nr > 0 /\ b.outer_ip.version = IPV4
                     THEN b.outer_ip.rnd ELSE @]

\* A plausible slip: the RND flag found in the inner flags is written to
\* the context at once, not left to update_ctxt.
Ext3InnerWritesCtxt ==
    /\ f.fn = "ext3" /\ f.pc = "inner"
    /\ LET r == ext3_inner(f, bits, strict)
       IN  /\ f' = r.f
           /\ bits' = r.bits
           /\ ctxt' = update_ctxt(ctxt, r.bits)
    /\ UNCHANGED <<strict, pre_ctxt, bits0, ptype>>

Ext3Inner ==
    f.fn = "ext3" /\ f.pc = "inner" /\ Commit(ext3_inner(f, bits, strict))

Ext3IpId ==
    f.fn = "ext3" /\ f.pc = "ip_id" /\ Commit(ext3_ip_id(f, bits, strict))

Ext3Outer ==
    f.fn = "ext3" /\ f.pc = "outer" /\ Commit(ext3_outer(f, bits, strict))

Ext3Assign ==
    f.fn = "ext3" /\ f.pc = "assign" /\ Commit(ext3_assign(f, bits, strict))

\* the next packet will start from context c
Idle(c) ==
    /\ ctxt' = c
    /\ pre_ctxt' = c
    /\ bits' = ResetBits(c)
    /\ bits0' = ResetBits(c)
    /\ ptype' = "none"
    /\ f' = IdleFrame
    /\ UNCHANGED strict

\* the packet was parsed: the framework updates the context
UpdateContext ==
    /\ f.fn \in {"dyn", "ext3"} /\ f.pc = "done"
    /\ Idle(update_ctxt(ctxt, bits))

\* the packet is dropped (parse failure, unknown type) or needs none of the
\* parsers of the profile: the context is left as it was
DropPacket ==
    /\ \/ f.pc = "error"
       \/ f.fn = "parse_pkt"
    /\ Idle(ctxt)

Next ==
    \/ NewPacket
    \/ DetectPacketType
    \/ ParsePkt
    \/ CallDynamic
    \/ ParseDynamicIp
    \/ CallExt3
    \/ Ext3Flags
    \/ Ext3CheckLen
    \/ Ext3IpFlags
    \/ Ext3Ip2Flags
    \/ Ext3Sn
    \/ Ext3Inner
    \/ Ext3IpId
    \/ Ext3Outer
    \/ Ext3Assign
    \/ UpdateContext
    \/ DropPacket

Spec == Init /\ [][Next]_vars

----------------------------------------------------------------------------
(* Properties.                                                             *)

Finished(fn) == f.fn = fn /\ f.pc \in {"done", "error"}

\* the discriminator tests that accept the packet
Matching(data) ==
    {t \in {ROHC_PACKET_UO_0, ROHC_PACKET_UO_1, ROHC_PACKET_UOR_2,
            ROHC_PACKET_IR_DYN, ROHC_PACKET_IR} :
       CASE t = ROHC_PACKET_UO_0   -> rohc_decomp_packet_is_uo0(data)
         [] t = ROHC_PACKET_UO_1   -> rohc_decomp_packet_is_uo1(data)
         [] t = ROHC_PACKET_UOR_2  -> rohc_decomp_packet_is_uor2(data)
         [] t = ROHC_PACKET_IR_DYN -> rohc_decomp_packet_is_irdyn(data)
         [] OTHER                  -> rohc_decomp_packet_is_ir(data)}

\* C1: the type returned for a packet of at least one byte is decided by
\* its first byte alone: UO_0 for 0x00-0x7F, UO_1 for 0x80-0xBF, UOR_2 for
\* 0xC0-0xDF, IR_DYN for 0xF8, IR for 0xFC and 0xFD, Unknown for any other
\* byte; at most one of the five tests accepts a byte, so the type is the
\* one of the only test that accepts it, whatever the order of the tests.
C1_DetectByFirstByte ==
    (f.fn = "detect" /\ f.pc = "done") =>
        LET b == f.data[1]
        IN  /\ Len(f.data) >= 1
            /\ ptype = (IF b <= 127 THEN ROHC_PACKET_UO_0
                        ELSE IF b <= 191 THEN ROHC_PACKET_UO_1
                        ELSE IF b <= 223 THEN ROHC_PACKET_UOR_2
                        ELSE IF b = 248 THEN ROHC_PACKET_IR_DYN
                        ELSE IF b \in {252, 253} THEN ROHC_PACKET_IR
                        ELSE ROHC_PACKET_UNKNOWN)
            /\ Cardinality(Matching(f.data)) <= 1
            /\ Matching(f.data) =
                 (IF ptype = ROHC_PACKET_UNKNOWN THEN {} ELSE {ptype})

\* an IR-DYN packet followed by one more byte was recognised
C1_Witness ==
    /\ f.fn = "detect" /\ f.pc = "done"
    /\ Len(f.data) = 2 /\ f.data[1] = 248
    /\ ptype = ROHC_PACKET_IR_DYN

\* C2: on an input of at least 2 bytes ip_parse_dynamic_ip returns 2 and
\* sets sn to the big-endian value of the first two bytes, sn_nr to 16 and
\* is_sn_enc to false, leaving the rest of the record alone; on a shorter
\* input it returns -1 and leaves the whole record as it was.
C2_DynamicSn ==
    Finished("dyn") =>
        IF Len(f.data) >= 2
        THEN /\ f.pc = "done" /\ f.ret = 2
             /\ bits = [bits0 EXCEPT !.sn = 256 * f.data[1] + f.data[2],
                                     !.sn_nr = 16, !.is_sn_enc = FALSE]
        ELSE /\ f.pc = "error" /\ f.ret = -1
             /\ bits = bits0

\* the dynamic chain 0x12 0x34 was parsed: sn = 0x1234
C2_Witness ==
    /\ f.fn = "dyn" /\ f.pc = "done"
    /\ f.data = <<18, 52>>
    /\ f.ret = 2 /\ bits.sn = 4660 /\ bits.sn_nr = 16 /\ ~bits.is_sn_enc

\* the IP-ID part of a header record
IdOf(ipb) == <<ipb.id, ipb.id_nr, ipb.is_id_enc>>

\* the header is IPv4 and its RND flag, as the packet gives it, is 0
NonRnd(ipb) == ipb.version = IPV4 /\ ipb.rnd = 0

\* the header record that the IP-ID of extension 3 is meant for
IdTarget(b) ==
    IF b.multiple_ip /\ NonRnd(b.inner_ip) THEN "inner"
    ELSE IF NonRnd(b.outer_ip) THEN "outer"
    ELSE "none"

\* C3: the IP-ID is read as the 16-bit big-endian value of its two bytes;
\* the assignment step of a call with I=1 that succeeds gives it to exactly
\* one header record (id = I_bits, id_nr = 16, is_id_enc = true) and leaves
\* the IP-ID of the other record untouched: to inner_ip when multiple_ip is
\* true and inner_ip is IPv4 with a non-random IP-ID, otherwise to outer_ip
\* when outer_ip is IPv4 with a non-random IP-ID; when neither qualifies the
\* call fails and no IP-ID is assigned; with I=0 the step writes no IP-ID.
C3_IpIdTarget ==
    [][/\ (f.fn = "ext3" /\ f.pc = "ip_id" /\ f.I = 1 /\ f'.pc = "outer") =>
              f'.I_bits = 256 * f.data[f.rohc_remain_data + 1]
                              + f.data[f.rohc_remain_data + 2]
       /\ (f.fn = "ext3" /\ f.pc = "assign") =>
             /\ f.I = 0 =>
                   /\ f'.pc = "done"
                   /\ IdOf(bits'.inner_ip) = IdOf(bits.inner_ip)
                   /\ IdOf(bits'.outer_ip) = IdOf(bits.outer_ip)
             /\ (f.I = 1 /\ f'.pc = "done") =>
                   \/ /\ IdTarget(bits) = "inner"
                      /\ IdOf(bits'.inner_ip) = <<f.I_bits, 16, TRUE>>
                      /\ IdOf(bits'.outer_ip) = IdOf(bits.outer_ip)
                   \/ /\ IdTarget(bits) = "outer"
                      /\ IdOf(bits'.outer_ip) = <<f.I_bits, 16, TRUE>>
                      /\ IdOf(bits'.inner_ip) = IdOf(bits.inner_ip)
             /\ (f.I = 1 /\ IdTarget(bits) = "none") =>
                   /\ f'.pc = "error" /\ f'.ret = -1
                   /\ bits' = bits
             /\ f'.pc = "error" => bits' = bits
      ]_vars

\* a call with I=1 on a flow with two IP headers, both IPv4 with non-random
\* IP-ID, succeeded: the inner header holds 0xABCD, the outer header none
C3_Witness ==
    /\ f.fn = "ext3" /\ f.pc = "done" /\ f.I = 1 /\ f.ret >= 3
    /\ bits.multiple_ip
    /\ NonRnd(bits.inner_ip) /\ NonRnd(bits.outer_ip)
    /\ IdOf(bits.inner_ip) = <<43981, 16, TRUE>>
    /\ bits.outer_ip.id_nr = 0

\* the length of the extension 3 the generator built
GenLen(g) == Len(Ext3Build(g))

\* the generated extension 3 is well-formed: Mode is not the reserved
\* value, the reserved flag of the inner IP header flags is zero
WellFormedGen(g) ==
    /\ g.mode \in 1..3
    /\ g.ip = 1 => GET_BIT(g.iflags, 0) = 0

\* the flags byte announces inner and outer flags on a flow with one IP
\* header: the position of the inner flags, kept in ip_flags_pos, is
\* replaced by the position of the outer flags (d_ip.c:330, 341)
FlagsPosOverwritten(fr, b) == fr.ip = 1 /\ fr.ip2 = 1 /\ ~b.multiple_ip

\* C4: a call that succeeds returns 1 + ip + ip2 + S + (size reported by
\* the inner flags/fields parse) + 2*I + (size reported by the outer
\* flags/fields parse), and on an input that holds a whole well-formed
\* extension 3 that is the length of the generated extension.
C4_ConsumedLength ==
    (f.fn = "ext3" /\ f.pc = "done") =>
        /\ f.ret = 1 + f.ip + f.ip2 + f.S + f.inner_size + 2 * f.I
                     + f.outer_size
        /\ (WellFormedGen(f.gen) /\ Len(f.data) >= GenLen(f.gen)) =>
               f.ret = GenLen(f.gen)

\* what holds of the consumed length: the sum always, and the generated
\* length unless the position of the inner flags was overwritten
Ext3ConsumedLength ==
    (f.fn = "ext3" /\ f.pc = "done") =>
        /\ f.ret = 1 + f.ip + f.ip2 + f.S + f.inner_size + 2 * f.I
                     + f.outer_size
        /\ (Len(f.data) >= GenLen(f.gen) /\ ~FlagsPosOverwritten(f, bits)) =>
               f.ret = GenLen(f.gen)

\* C7: ip_parse_ext3 on a proper prefix of a well-formed extension 3 fails
\* with a too-short error.
C7_TruncationFails ==
    (Finished("ext3") /\ WellFormedGen(f.gen)
                      /\ Len(f.data) < GenLen(f.gen)) =>
        f.pc = "error" /\ f.err = "TooShort"

\* what holds of truncation: it fails as too short unless the position of
\* the inner flags was overwritten
Ext3TruncationFails ==
    (Finished("ext3") /\ WellFormedGen(f.gen)
                      /\ Len(f.data) < GenLen(f.gen)
                      /\ ~FlagsPosOverwritten(f, bits)) =>
        f.pc = "error" /\ f.err = "TooShort"

\* C5: in ip_parse_ext3 and ip_parse_dynamic_ip the read position never
\* passes the end of the input: at every step the cursor and the remaining
\* length add up to the input length, the remaining length is not negative,
\* no byte at or past the end was read, a call that succeeds returns a count
\* between 1 and the input length, and a call that found the input too
\* short for the flags byte, for the ip + ip2 + S one-byte sub-fields or for
\* the 2 bytes of the IP-ID failed with the cursor left before that field.
C5_CursorInBounds ==
    f.fn \in {"dyn", "ext3"} =>
        /\ f.rohc_remain_len >= 0
        /\ f.rohc_remain_data + f.rohc_remain_len = Len(f.data)
        /\ f.hi <= Len(f.data)
        /\ f.hi <= Max(f.rohc_remain_data, 1)
        /\ f.pc = "done" => f.ret >= 1 /\ f.ret <= Len(f.data)
                                       /\ f.ret = f.rohc_remain_data
        /\ f.pc = "error" => f.ret = -1
        /\ (f.fn = "ext3" /\ f.pc \in {"ip_flags", "ip2_flags", "sn"}) =>
              f.rohc_remain_data + f.rohc_remain_len
                  >= 1 + f.ip + f.ip2 + f.S
        /\ (f.fn = "ext3" /\ f.pc = "outer" /\ f.I = 1) =>
              f.hi = f.rohc_remain_data

\* the input ended one byte into the IP-ID: the call failed without
\* reading the IP-ID
C5_Witness ==
    /\ f.fn = "ext3" /\ f.pc = "error" /\ f.err = "TooShort"
    /\ f.I = 1 /\ f.I_bits = Undef
    /\ f.rohc_remain_len = 1
    /\ f.hi = Len(f.data) - 1

\* ip_parse_ext3 run from its entry, on input data with bits b found so
\* far, in a build of strictness s
Ext3Run(data, g, b, s) == ip_parse_ext3(Frame("ext3", "flags", data, g), b, s)

\* the error of the strict build for the first diagnostic of a call
DiagError(d) ==
    IF "mode0" \in d THEN "MalformedMode"
    ELSE IF "reserved" \in d THEN "MalformedReservedFlag"
    ELSE "IpIdAlreadySet"

\* the input with what the three diagnostics object to put right: Mode 1
\* instead of 0, the last bit of the flags bytes cleared
Repaired(data) ==
    [i \in 1..Len(data) |->
        IF i = 1 /\ GET_BIT_3_4(data[1]) = 0 THEN data[1] + 8
        ELSE IF i > 1 /\ i <= 1 + GET_BIT(data[1], 1) + GET_BIT(data[1], 0)
             THEN data[i] - GET_BIT(data[i], 0)
        ELSE data[i]]

\* the bits found so far with no IP-ID in them
NoIds(b) ==
    [b EXCEPT !.inner_ip.id = 0, !.inner_ip.id_nr = 0,
              !.inner_ip.is_id_enc = FALSE,
              !.outer_ip.id = 0, !.outer_ip.id_nr = 0,
              !.outer_ip.is_id_enc = FALSE]

\* C6: the strict and the lenient build treat an extension 3 alike unless
\* one of three diagnostics is emitted (Mode 0, non-zero reserved flag of
\* the inner flags, IP-ID already updated): the strict build then fails on
\* the first of them, the lenient build goes on and ends (success or
\* failure, bytes consumed) as it does on the same input without the
\* malformations; the lenient build fails only on a too short input or on
\* I=1 with no IPv4 header of non-random IP-ID, and then the strict build
\* fails too.
C6_StrictOnlyDiagnostics ==
    Finished("ext3") =>
        LET this    == [f |-> f, bits |-> bits]
            other   == Ext3Run(f.data, f.gen, bits0, ~strict)
            lenient == IF strict THEN other ELSE this
            strictb == IF strict THEN this ELSE other
            clean   == Ext3Run(Repaired(f.data), f.gen, NoIds(bits0), FALSE)
        IN  /\ lenient.f.diag = {} => strictb = lenient
            /\ lenient.f.diag # {} =>
                  /\ strictb.f.pc = "error" /\ strictb.f.ret = -1
                  /\ strictb.f.err = DiagError(lenient.f.diag)
            /\ lenient.f.pc = "error" =>
                  /\ lenient.f.err \in {"TooShort", "NoIpIdTarget"}
                  /\ strictb.f.pc = "error"
            /\ strictb.f.err \in {"TooShort", "NoIpIdTarget"} =>
                  lenient.f.err = strictb.f.err
            /\ clean.f.diag = {}
            /\ lenient.f.pc = clean.f.pc
            /\ lenient.f.ret = clean.f.ret
            /\ lenient.f.err = clean.f.err

\* a lenient build parsed to its end an extension 3 that raised the three
\* diagnostics
C6_Witness ==
    /\ ~strict
    /\ f.fn = "ext3" /\ f.pc = "done"
    /\ f.diag = {"mode0", "reserved", "id_updated"}
    /\ f.ret = GenLen(f.gen)

\* the record of the header the IP-ID is meant for
TargetBits(b) == IF IdTarget(b) = "inner" THEN b.inner_ip ELSE b.outer_ip

\* the assignment step of a call with I=1 that has a target header
AssignWithTarget ==
    f.fn = "ext3" /\ f.pc = "assign" /\ f.I = 1 /\ IdTarget(bits) # "none"

\* C8, as claimed: in strict mode the assignment step never gives I_bits to
\* a target header whose id_nr was non-zero: the call fails and the record
\* is not written.
C8_StrictNeverOverwrites ==
    [][(AssignWithTarget /\ strict /\ TargetBits(bits).id_nr # 0) =>
           (f'.pc = "error" /\ bits' = bits)]_vars

\* C8, amended: the IP-ID of the target counts as already updated when its
\* id_nr is non-zero and its id is non-zero.  Then the strict build fails
\* (IP-ID already set) without writing the record, and the lenient build
\* emits the warning and overwrites (id = I_bits, id_nr = 16, is_id_enc =
\* true).  Otherwise, also with id_nr non-zero and id zero, both builds
\* assign I_bits without a warning.
C8_AlreadyUpdated ==
    [][AssignWithTarget =>
         LET t   == TargetBits(bits)
             upd == t.id_nr # 0 /\ t.id # 0
         IN  /\ (upd /\ strict) =>
                   /\ f'.pc = "error" /\ f'.err = "IpIdAlreadySet"
                   /\ "id_updated" \in f'.diag
                   /\ bits' = bits
             /\ (upd /\ ~strict) =>
                   /\ f'.pc = "done"
                   /\ "id_updated" \in f'.diag
                   /\ IdOf(TargetBits(bits')) = <<f.I_bits, 16, TRUE>>
             /\ ~upd =>
                   /\ f'.pc = "done"
                   /\ f'.diag = f.diag
                   /\ IdOf(TargetBits(bits')) = <<f.I_bits, 16, TRUE>>
      ]_vars

\* a strict build refused an IP-ID for a header whose IP-ID was updated
C8_Witness ==
    /\ strict
    /\ f.fn = "ext3" /\ f.pc = "error" /\ f.err = "IpIdAlreadySet"
    /\ f.I = 1 /\ f.I_bits = 43981
    /\ TargetBits(bits).id_nr = MaxBaseIdBits
    /\ TargetBits(bits).id # 0 /\ TargetBits(bits).id # 43981

\* C9: while a packet is detected and parsed, whether the parse succeeds
\* or fails, the persistent context (multiple_ip, the version, RND flag and
\* last IP-ID of each header, the SN reference) is the one the packet
\* found: the parse functions write the extracted bits and their own
\* locals only.
C9_ContextUntouched ==
    f.fn \in {"detect", "parse_pkt", "dyn", "ext3"} => ctxt = pre_ctxt

\* an extension 3 was parsed that changes the RND flag of the outer header:
\* the extracted bits hold the new flag, the context the old one
C9_Witness ==
    /\ f.fn = "ext3" /\ f.pc = "done"
    /\ bits.outer_ip.rnd_nr = 1
    /\ bits.outer_ip.rnd # ctxt.outer.rnd
    /\ bits.multiple_ip = ctxt.multiple_ip

\* the SN part of the extracted bits
SnOf(b) == <<b.sn, b.sn_nr, b.is_sn_enc>>

\* the call is past the SN byte of an extension 3 with S=1
SnAppended ==
    /\ f.fn = "ext3" /\ f.S = 1
    /\ f.pc \in {"inner", "ip_id", "outer", "assign", "done"}
       \/ /\ f.pc = "error"
          /\ f.ip # Undef /\ f.ip2 # Undef
          /\ f.rohc_remain_data >= 1 + f.ip + f.ip2 + f.S

\* C10, as claimed: in the records produced by a dynamic-chain parse or by
\* an extension 3 with S=1, sn_nr is 0, 8 or 16.
C10_SnNrValues ==
    ((f.fn = "dyn" /\ f.pc = "done") \/ SnAppended) =>
        bits.sn_nr \in {0, 8, 16}

\* C10, amended: a dynamic-chain parse sets sn_nr = 16 and is_sn_enc =
\* false; an extension 3 with S=1 appends the 8 bits of its SN byte to the
\* SN bits already found in the base header (sn = old sn shifted by 8 bits
\* plus the byte, sn_nr = old sn_nr + 8, so sn = the byte and sn_nr = 8
\* when there were none); an extension 3 with S=0 leaves sn and sn_nr as
\* they were.  sn_nr is 0, 8 or 16 when the base header gave no SN bits.
C10_SnAppend ==
    /\ (f.fn = "dyn" /\ f.pc = "done") =>
           bits.sn_nr = 16 /\ ~bits.is_sn_enc
    /\ (f.fn = "ext3" /\ SnAppended) =>
           LET byte == f.data[1 + f.ip + f.ip2 + 1]
           IN  /\ bits.sn = 256 * bits0.sn + byte
               /\ bits.sn % 256 = byte
               /\ bits.sn_nr = bits0.sn_nr + 8
               /\ bits.is_sn_enc = bits0.is_sn_enc
    /\ (f.fn = "ext3" /\ ~SnAppended) => SnOf(bits) = SnOf(bits0)
    /\ (f.fn \in {"dyn", "ext3"} /\ bits0.sn_nr = 0) =>
           bits.sn_nr \in {0, 8, 16}

\* the SN byte 0x55 was appended to 5 SN bits of the base header
C10_Witness ==
    /\ f.fn = "ext3" /\ f.pc = "done" /\ f.S = 1
    /\ bits0.sn_nr = MaxBaseSnBits
    /\ bits.sn_nr = MaxBaseSnBits + 8
    /\ bits.sn = 256 * (Pow2(MaxBaseSnBits) - 1) + 85

\* C11: with I=1 the IP-ID step only reads the two bytes of the IP-ID and
\* moves past them: no step before the assignment step writes the IP-ID of
\* a header record.  The assignment step comes after the inner and the
\* outer flags/fields parses and chooses the header with the RND flags as
\* they are then: when the outer header is then IPv4 with a non-random
\* IP-ID and the inner header does not qualify, the IP-ID goes to outer_ip
\* (unless it counts as already updated in a strict build), whatever the
\* RND flags were before the packet; when no header qualifies then, the
\* call fails.
C11_DeferredAssignment ==
    [][f.fn = "ext3" =>
         /\ f.pc = "ip_id" =>
               /\ bits' = bits
               /\ (f.I = 1 /\ f'.pc = "outer") =>
                     /\ f'.rohc_remain_data = f.rohc_remain_data + 2
                     /\ f'.I_bits = 256 * f.data[f.rohc_remain_data + 1]
                                        + f.data[f.rohc_remain_data + 2]
         /\ f.pc \in {"flags", "check_len", "ip_flags", "ip2_flags", "sn",
                      "inner", "ip_id", "outer"} =>
               /\ IdOf(bits'.inner_ip) = IdOf(bits0.inner_ip)
               /\ IdOf(bits'.outer_ip) = IdOf(bits0.outer_ip)
               /\ f'.pc = "assign" => f.pc = "outer"
         /\ (f.pc = "assign" /\ f.I = 1) =>
               LET upd == bits.outer_ip.id_nr > 0 /\ bits.outer_ip.id # 0
               IN  /\ (IdTarget(bits) = "outer" /\ ~(upd /\ strict)) =>
                         /\ f'.pc = "done"
                         /\ IdOf(bits'.outer_ip) = <<f.I_bits, 16, TRUE>>
                         /\ IdOf(bits'.inner_ip) = IdOf(bits.inner_ip)
                   /\ IdTarget(bits) = "none" =>
                         f'.pc = "error" /\ f'.err = "NoIpIdTarget"
      ]_vars

\* no header qualified when the packet arrived (two IP headers, the outer
\* one IPv4 with a random IP-ID); the outer flags of the extension cleared
\* the RND flag of the outer header and the IP-ID went to outer_ip
C11_Witness ==
    /\ f.fn = "ext3" /\ f.pc = "done" /\ f.I = 1 /\ f.ip2 = 1
    /\ bits.multiple_ip
    /\ IdTarget(bits0) = "none"
    /\ bits0.outer_ip.version = IPV4 /\ bits0.outer_ip.rnd = 1
    /\ ~NonRnd(bits.inner_ip)
    /\ bits.outer_ip.rnd = 0 /\ bits.outer_ip.rnd_nr = 1
    /\ IdOf(bits.outer_ip) = <<43981, 16, TRUE>>

\* the position of the flags byte that the inner flags/fields parse is
\* run with (d_ip.c:360, 366)
InnerFlagsPosUsed(fr, b) ==
    IF b.multiple_ip THEN fr.ip2_flags_pos ELSE fr.ip_flags_pos

\* C12: with ip=1 the inner flags/fields parse is run with the byte that
\* follows the flags byte of the extension, with ip2=1 the outer
\* flags/fields parse is run with the byte snapshotted as outer flags (the
\* one after the inner flags when there are any); with ip=1 and ip2=1 both
\* positions are set and they are distinct.
C12_FlagPositions ==
    f.fn = "ext3" =>
        /\ (f.pc = "inner" /\ f.ip = 1) => InnerFlagsPosUsed(f, bits) = 1
        /\ (f.pc = "outer" /\ f.ip2 = 1) => f.ip_flags_pos = 1 + f.ip
        /\ (f.pc \in {"sn", "inner", "ip_id", "outer", "assign", "done"}
                /\ f.ip = 1 /\ f.ip2 = 1) =>
              /\ f.ip_flags_pos # Undef /\ f.ip2_flags_pos # Undef
              /\ f.ip_flags_pos # f.ip2_flags_pos

\* what holds of the flag positions: the claim, unless the position of the
\* inner flags was overwritten; then one position is set, that of the
\* outer flags, and the inner flags/fields parse is run with it
Ext3FlagPositions ==
    f.fn = "ext3" =>
        /\ (f.pc = "inner" /\ f.ip = 1) =>
              InnerFlagsPosUsed(f, bits) =
                  (IF FlagsPosOverwritten(f, bits) THEN 2 ELSE 1)
        /\ (f.pc = "outer" /\ f.ip2 = 1) => f.ip_flags_pos = 1 + f.ip
        /\ (f.pc \in {"sn", "inner", "ip_id", "outer", "assign", "done"}
                /\ f.ip = 1 /\ f.ip2 = 1) =>
              IF bits.multiple_ip
              THEN f.ip2_flags_pos = 1 /\ f.ip_flags_pos = 2
              ELSE f.ip2_flags_pos = Undef /\ f.ip_flags_pos = 2

\* C13: on a flow with one IP header (multiple_ip false) ip_parse_ext3
\* never writes the record of the inner header, whatever S, I, ip and ip2
\* are and whether the call succeeds or fails: at every step inner_ip is as
\* the call found it, and what the call changed is among Mode, the SN bits
\* and the record of the outer header.
C13_InnerUntouched ==
    (f.fn = "ext3" /\ ~bits.multiple_ip) =>
        /\ ~bits0.multiple_ip
        /\ bits.inner_ip = bits0.inner_ip
        /\ [bits EXCEPT !.mode = bits0.mode, !.mode_nr = bits0.mode_nr,
                        !.sn = bits0.sn, !.sn_nr = bits0.sn_nr,
                        !.outer_ip = bits0.outer_ip] = bits0

\* on a flow with one IP header a call with ip=1 and I=1 succeeded: the
\* flags and the IP-ID are in outer_ip, and inner_ip, IPv4 with a
\* non-random IP-ID though it is, has none of them
C13_Witness ==
    /\ f.fn = "ext3" /\ f.pc = "done" /\ f.ip = 1 /\ f.I = 1
    /\ ~bits.multiple_ip
    /\ NonRnd(bits.inner_ip)
    /\ bits.inner_ip.rnd_nr = 0 /\ bits.inner_ip.id_nr = 0
    /\ bits.outer_ip.rnd_nr = 1
    /\ IdOf(bits.outer_ip) = <<43981, 16, TRUE>>

====
